---- MODULE Spec2Model ----
(***************************************************************************)
(* WaveVisualizer: the rendering and encoding pipeline.                    *)
(*                                                                         *)
(*   process_audio_visualization   src/utils/audio_processor.py            *)
(*   create_video_from_frames      src/utils/video_processor.py            *)
(*   ensure_even_dimensions        src/utils/image_processor.py            *)
(*   process_video_task,                                                   *)
(*   start_video_generation_task   src/utils/background_processor.py       *)
(*   delete_preset                 src/app.py                              *)
(*                                                                         *)
(* Each call of process_audio_visualization is a run r \in Runs whose      *)
(* locals live in pav[r]; the file system (frame directories, output       *)
(* files, the shared temporary resized image) and the function attribute   *)
(* process_audio_visualization._prev_heights are global variables.         *)
(* A behaviour exercises one part of the program (mode), again and again:  *)
(* one of the three functions, the bar geometry of a frame ("draw"), the   *)
(* background tasks ("task"), or the deletion of presets ("presets").      *)
(*                                                                         *)
(* Numbers: amplitudes and the smoothing factor are fixed-point, 1.0 is    *)
(* Scale; a float NaN or infinity is the value NaN or Inf, and arithmetic  *)
(* propagates them as IEEE arithmetic does.                                *)
(***************************************************************************)
EXTENDS Integers, FiniteSets, Sequences, TLC

VARIABLES
    mode,           \* the part of the program the behaviour exercises
    pav,            \* pav[r]: the locals of run r of process_audio_visualization
    frame_store,    \* frame_store[r]: the directory mkdtemp() gave run r
    output_file,    \* output_file[r]: whether run r's output_path exists
    resized_image,  \* <tempdir>/resized_image.png: None or who wrote it, and its size
    prev_heights,   \* process_audio_visualization._prev_heights: None or a vector
    cvf,            \* the locals of the call of create_video_from_frames
    cvf_files,      \* the directory it is given, the one it makes, its output file
    eed,            \* the last call of ensure_even_dimensions: argument and result
    image_files,    \* image_files[k]: the uploaded image (k = 0) and its resized copies
    bars,           \* the bars of one frame: the style, the amplitudes, the rectangles
    tasks,          \* tasks[t]: the BackgroundTask row of task t
    workers,        \* workers[t]: the thread running process_video_task for task t
    main,           \* the request thread inside start_video_generation_task
    running_tasks,  \* the keys of the dictionary running_tasks
    videos,         \* the number of OutputVideo rows
    presets,        \* the ids of the rows of the preset table
    requests        \* requests[q]: request thread q inside delete_preset

pav_vars == <<pav, frame_store, output_file, resized_image, prev_heights>>
cvf_vars == <<cvf, cvf_files>>
eed_vars == <<eed, image_files>>
draw_vars == <<bars>>
task_vars == <<tasks, workers, main, running_tasks, videos>>
preset_vars == <<presets, requests>>
vars == <<mode, pav_vars, cvf_vars, eed_vars, draw_vars, task_vars, preset_vars>>

---------------------------------------------------------------------------
(* Bounds and input domains *)

NumRuns == 2
MaxFrames == 3
MaxSamples == 3
Scale == 4
MaxDim == 4
MaxCopies == 2
MaxBars == 3
MaxTasks == 2
MaxPresets == 2
NumRequests == 2

Runs == 1..NumRuns
FrameIdx == 0..(MaxFrames - 1)
Bins == 1..2
\* <<sr, fps>>: fps below, at and above the sample rate, and a rate that fps
\* does not divide
Rates == {<<1, 1>>, <<2, 1>>, <<1, 2>>, <<3, 2>>}
DbValues == {-2, -1, 0}
Responsivenesses == {1, 2}
Smoothings == {0, 1, Scale \div 2}
ImageSizes == {<<2, 2>>, <<3, 2>>, <<3, 3>>, <<1, 2>>}
FrameSizes == {<<2, 2>>, <<3, 2>>}
StderrTexts == {"stderr_a", "stderr_b"}
Dims == 1..MaxDim
Paths == 0..MaxCopies
TaskIds == 1..MaxTasks
PresetIds == 1..MaxPresets
Requests == 1..NumRequests
Durations == {1, 8}                                 \* seconds of audio
BarCounts == 1..MaxBars
BarWidthRatios == {1, Scale \div 2, Scale}          \* within (0, 1]
HorizontalMargins == {0, 1}                         \* within [0, 0.5)
BarHeightScales == {Scale, 2 * Scale}
VerticalPositions == {0, Scale \div 2, Scale}
Amplitudes == {0, Scale \div 2, Scale}              \* within [0, 1]
\* a background whose sides make every quotient of the bar geometry exact
ImgWidth == 12 * Scale * Scale
ImgHeight == 50 * Scale * Scale

\* A float is <<"num", x>> (x in fixed point), NaN or Inf
Num(x) == <<"num", x>>
NaN == <<"nan", 0>>
Inf == <<"inf", 0>>

\* Python's None where a vector or a tuple is expected; a file that does not exist
None == <<>>
NoFile == <<>>

---------------------------------------------------------------------------
(* Pure computations *)

\* int(duration * fps) with duration = len(y) / sr
NFrames(y_len, sr, fps) == (y_len * fps) \div sr

\* faulty variant: an odd side rounded up
adjusted_up(x) == IF x % 2 = 0 THEN x ELSE x + 1

\* `x if x % 2 == 0 else x - 1`
adjusted(x) == IF x % 2 = 0 THEN x ELSE x - 1

adjusted_size(size) == <<adjusted(size[1]), adjusted(size[2])>>

IsOdd(size) == size[1] % 2 # 0 \/ size[2] % 2 # 0

\* PIL's Image.resize refuses a target with a side below 1 pixel
ResizeAccepts(size) == size[1] >= 1 /\ size[2] >= 1

IsNum(x) == x[1] = "num"

\* float division of two integers: x / 0 is nan for x = 0 and an infinity otherwise
FDiv(a, b) ==
    IF b = 0 THEN (IF a = 0 THEN NaN ELSE Inf)
    ELSE Num((a * Scale) \div b)

\* x * w with w a fixed-point weight in 0..Scale
FMul(x, w) ==
    IF x = NaN THEN NaN
    ELSE IF x = Inf THEN (IF w = 0 THEN NaN ELSE Inf)
    ELSE Num(x[2] * w)

FAdd(x, y) ==
    IF x = NaN \/ y = NaN THEN NaN
    ELSE IF x = Inf \/ y = Inf THEN Inf
    ELSE Num(x[2] + y[2])

\* back from a product of two fixed-point numbers to one
FRescale(x) == IF IsNum(x) THEN Num(x[2] \div Scale) ELSE x

IsFinite(x) == IsNum(x)

VMin(v) == CHOOSE m \in {v[j] : j \in DOMAIN v} : \A j \in DOMAIN v : m <= v[j]
VMax(v) == CHOOSE m \in {v[j] : j \in DOMAIN v} : \A j \in DOMAIN v : m >= v[j]

\* np.mean(D_db_subset, axis=1) * responsiveness
avg_amplitudes(mean_db, responsiveness) ==
    [j \in DOMAIN mean_db |-> mean_db[j] * responsiveness]

\* (avg - min) / (max - min)
normalized_amps(avg) ==
    [j \in DOMAIN avg |-> FDiv(avg[j] - VMin(avg), VMax(avg) - VMin(avg))]

\* prev * smoothing + cur * (1 - smoothing)
blend(prev, cur, smoothing) ==
    [j \in DOMAIN cur |->
        FRescale(FAdd(FMul(prev[j], smoothing), FMul(cur[j], Scale - smoothing)))]

\* faulty variant: the guard i > 0 left out
smoothed_any_frame(i, smoothing, prev, cur) ==
    IF smoothing > 0 /\ prev # None
    THEN blend(prev, cur, smoothing)
    ELSE cur

\* faulty variant: smoothing >= 0 for smoothing > 0
smoothed_from_zero(i, smoothing, prev, cur) ==
    IF i > 0 /\ smoothing >= 0 /\ prev # None
    THEN blend(prev, cur, smoothing)
    ELSE cur

\* `if i > 0 and smoothing > 0 and prev_heights_var is not None`
smoothed(i, smoothing, prev, cur) ==
    IF i > 0 /\ smoothing > 0 /\ prev # None
    THEN blend(prev, cur, smoothing)
    ELSE cur

---------------------------------------------------------------------------
(* process_audio_visualization: state of one run *)

NoExc == [type |-> "none", msg |-> <<"", "">>]

\* an exception: its class and its message, a fixed text followed by a detail
Exc(type, text, detail) == [type |-> type, msg |-> <<text, detail>>]

NoFiles == [k \in FrameIdx |-> NoFile]

NoDir == [exists |-> FALSE, files |-> NoFiles]

IdleRun ==
    [pc |-> "idle",
     audio_ok |-> TRUE, y_len |-> 0, sr |-> 1, fps |-> 1,
     smoothing |-> 0, responsiveness |-> 1,
     image |-> <<2, 2>>, canvas |-> <<2, 2>>,
     n_frames |-> 0, frame_length |-> 0, i |-> 0,
     frames_dir |-> FALSE,       \* whether the local frames_dir is bound
     background |-> None,        \* the image the current frame is drawn on
     frame |-> -1,               \* index of the last frame whose amplitudes were computed
     raw |-> None,               \* normalized_amps of the last frame, before smoothing
     heights |-> None,           \* normalized_amps of the last frame, after smoothing
     last_heights |-> None,      \* heights of the frame before the last one of this run
     flat |-> FALSE,             \* whether the last frame's averages had max = min
     saved |-> 0,                \* number of frames saved so far
     writes |-> [k \in FrameIdx |-> 0],  \* how often frame k's file was written
     late_writes |-> 0,          \* writes of a frame file made after ffmpeg was started
     failed_frame |-> -1,        \* index of the frame whose rendering failed, or -1
     exc |-> NoExc,              \* the exception in flight, then the one raised
     ffmpeg_calls |-> 0, returncode |-> 0, stderr |-> "",
     verified |-> FALSE,         \* ffmpeg exited 0 and the output file exists and opens
     delete_failed |-> FALSE]    \* whether an os.remove or os.rmdir of this run failed

Written(r) == {k \in FrameIdx : frame_store[r].files[k] # NoFile}

\* faulty variant: the loop left one frame before the last
LoopPc_stops_early(i, n_frames, frame_length, y_len) ==
    IF i < n_frames - 1 /\ ~(i * frame_length >= y_len) THEN "frame" ELSE "encode"

\* `for i in range(n_frames)` and `if start_idx >= len(y): break`
LoopPc(i, n_frames, frame_length, y_len) ==
    IF i < n_frames /\ ~(i * frame_length >= y_len) THEN "frame" ELSE "encode"

\* lines 60-61: the bounds of the segment of frame i
start_idx(i, frame_length) == i * frame_length
end_idx(i, frame_length, y_len) ==
    IF (i + 1) * frame_length <= y_len THEN (i + 1) * frame_length ELSE y_len

\* faulty variant: the failure of a frame logged and the loop continued
frame_failure_skipped(p, e) ==
    [p EXCEPT !.failed_frame = p.i, !.i = p.i + 1,
              !.pc = LoopPc(p.i + 1, p.n_frames, p.frame_length, p.y_len)]

\* an exception e inside the body of the loop, at frame p.i: no statement of
\* the loop catches it, so control passes to the handler of line 294
frame_failure(p, e) == [p EXCEPT !.pc = "except", !.exc = e, !.failed_frame = p.i]

\* the calls whose interleavings are explored: two frames of one sample each,
\* smoothing 0.5, a loadable audio file, an image of any of three sizes
ConcurrentCall(ok, y_len, rate, smoothing, responsiveness, image, canvas) ==
    /\ ok /\ y_len = 2 /\ rate = <<1, 1>>
    /\ smoothing = Scale \div 2 /\ responsiveness = 1
    /\ image \in {<<2, 2>>, <<3, 2>>, <<3, 3>>}
    /\ canvas = <<2, 2>>

\* the interleavings of request threads are explored with an environment
\* that fails only in the loop: deletes succeed, the output file is made
Benign == mode = "threads"

\* calls made one after another ("pav"): a run starts when no other is under
\* way; calls made by request threads at once ("threads"): a run starts at
\* any time
CanStart(r) ==
    /\ pav[r].pc = "idle"
    /\ \/ mode = "pav" /\ \A q \in Runs : pav[q].pc = "idle"
       \/ mode = "threads"

\* faulty variant: mkdtemp called before librosa.load
load_outcome_mkdtemp_first(args) ==
    LET n_frames == NFrames(args.y_len, args.sr, args.fps)
    IN  IF ~args.audio_ok
        THEN [run |-> [args EXCEPT !.pc = "except", !.frames_dir = TRUE,
                          !.exc = Exc("LoadError", "cannot load audio", "")],
              mkdtemp |-> TRUE]
        ELSE IF n_frames = 0
        THEN [run |-> [args EXCEPT !.pc = "except", !.frames_dir = TRUE,
                          !.exc = Exc("ZeroDivisionError",
                                      "integer division or modulo by zero", "")],
              mkdtemp |-> TRUE]
        ELSE [run |-> [args EXCEPT !.frames_dir = TRUE,
                          !.n_frames = n_frames,
                          !.frame_length = args.y_len \div n_frames,
                          !.pc = LoopPc(0, n_frames, args.y_len \div n_frames,
                                        args.y_len)],
              mkdtemp |-> TRUE]

\* faulty variant: frame_length rounded up, so that the last segments start past the end
load_outcome_long_segments(args) ==
    LET n_frames == NFrames(args.y_len, args.sr, args.fps)
        frame_length == (args.y_len + n_frames - 1) \div n_frames + 1
    IN  IF ~args.audio_ok
        THEN [run |-> [args EXCEPT !.pc = "except",
                          !.exc = Exc("LoadError", "cannot load audio", "")],
              mkdtemp |-> FALSE]
        ELSE IF n_frames = 0
        THEN [run |-> [args EXCEPT !.pc = "except", !.frames_dir = TRUE,
                          !.exc = Exc("ZeroDivisionError",
                                      "integer division or modulo by zero", "")],
              mkdtemp |-> TRUE]
        ELSE [run |-> [args EXCEPT !.frames_dir = TRUE,
                          !.n_frames = n_frames,
                          !.frame_length = frame_length,
                          !.pc = LoopPc(0, n_frames, frame_length, args.y_len)],
              mkdtemp |-> TRUE]

\* lines 41-56 on the arguments args: the locals after them and whether
\* mkdtemp was reached
load_outcome(args) ==
    LET n_frames == NFrames(args.y_len, args.sr, args.fps)
    IN  IF ~args.audio_ok
        THEN [run |-> [args EXCEPT !.pc = "except",
                          !.exc = Exc("LoadError", "cannot load audio", "")],
              mkdtemp |-> FALSE]
        ELSE IF n_frames = 0
        THEN [run |-> [args EXCEPT !.pc = "except", !.frames_dir = TRUE,
                          !.exc = Exc("ZeroDivisionError",
                                      "integer division or modulo by zero", "")],
              mkdtemp |-> TRUE]
        ELSE [run |-> [args EXCEPT !.frames_dir = TRUE,
                          !.n_frames = n_frames,
                          !.frame_length = args.y_len \div n_frames,
                          !.pc = LoopPc(0, n_frames, args.y_len \div n_frames,
                                        args.y_len)],
              mkdtemp |-> TRUE]

\* a call: the arguments, then lines 41-56: load the audio, derive the frame
\* count, make the frames directory
LoadAudio(r) ==
    /\ CanStart(r)
    /\ \E ok \in BOOLEAN, y_len \in 0..MaxSamples, rate \in Rates,
          smoothing \in Smoothings, responsiveness \in Responsivenesses,
          image \in ImageSizes, canvas \in FrameSizes :
        LET args == [IdleRun EXCEPT !.pc = "load", !.audio_ok = ok, !.y_len = y_len,
                        !.sr = rate[1], !.fps = rate[2], !.smoothing = smoothing,
                        !.responsiveness = responsiveness,
                        !.image = image, !.canvas = canvas]
            out == load_outcome(args)
        IN  /\ NFrames(y_len, rate[1], rate[2]) <= MaxFrames
            /\ mode = "threads" =>
                  ConcurrentCall(ok, y_len, rate, smoothing, responsiveness,
                                 image, canvas)
            /\ pav' = [pav EXCEPT ![r] = out.run]
            /\ frame_store' = [frame_store EXCEPT ![r] =
                  IF out.mkdtemp THEN [exists |-> TRUE, files |-> NoFiles] ELSE @]
    /\ UNCHANGED <<mode, preset_vars, draw_vars, task_vars, cvf_vars, eed_vars, output_file, resized_image, prev_heights>>

\* lines 60-101: slice the segment, read the image and, when a side is odd,
\* save a resized copy to <tempdir>/resized_image.png
PrepareImage(r) ==
    /\ pav[r].pc = "frame"
    /\ \E ok \in BOOLEAN :
        LET image == pav[r].image
            target == adjusted_size(image)
        IN  IF ~ok
            THEN /\ pav' = [pav EXCEPT ![r] = frame_failure(pav[r],
                               Exc("OSError", "cannot read or save the image", ""))]
                 /\ UNCHANGED resized_image
            ELSE IF ~IsOdd(image)
            THEN /\ pav' = [pav EXCEPT ![r].pc = "render",
                                       ![r].background = <<"image", r, image>>]
                 /\ UNCHANGED resized_image
            ELSE IF ~ResizeAccepts(target)
            THEN /\ pav' = [pav EXCEPT ![r] = frame_failure(pav[r],
                               Exc("ValueError", "height and width must be > 0", ""))]
                 /\ UNCHANGED resized_image
            ELSE /\ resized_image' = <<"resized", r, target>>
                 /\ pav' = [pav EXCEPT ![r].pc = "render", ![r].background = None]
    /\ UNCHANGED <<mode, preset_vars, draw_vars, task_vars, cvf_vars, eed_vars, frame_store, output_file, prev_heights>>

\* lines 100-213: read the resized copy back, normalize and smooth the
\* amplitudes, draw the bars and save frame i
RenderFrame(r) ==
    /\ pav[r].pc = "render"
    /\ \E mean_db \in [Bins -> DbValues], outcome \in {"saved", "fails_early", "fails_late"} :
        LET p == pav[r]
            raw == normalized_amps(avg_amplitudes(mean_db, p.responsiveness))
            heights == smoothed(p.i, p.smoothing, prev_heights, raw)
            background == IF p.background = None THEN resized_image ELSE p.background
            drawn == [p EXCEPT !.background = background, !.frame = p.i,
                               !.raw = raw, !.heights = heights,
                               !.flat = (VMax(mean_db) = VMin(mean_db)),
                               !.last_heights = p.heights]
        IN  CASE outcome = "fails_early" ->
                    /\ pav' = [pav EXCEPT ![r] = frame_failure(p,
                                  Exc("RenderError", "cannot analyse the segment", ""))]
                    /\ UNCHANGED <<frame_store, prev_heights>>
              [] outcome = "fails_late" ->
                    /\ prev_heights' = heights
                    /\ pav' = [pav EXCEPT ![r] = frame_failure(drawn,
                                  Exc("RenderError", "cannot save the frame", ""))]
                    /\ UNCHANGED frame_store
              [] outcome = "saved" ->
                    /\ prev_heights' = heights
                    /\ frame_store' = [frame_store EXCEPT ![r].files[p.i] = p.canvas]
                    /\ pav' = [pav EXCEPT ![r] =
                          [drawn EXCEPT !.saved = p.saved + 1,
                                        !.writes[p.i] = @ + 1,
                                        !.late_writes =
                                            IF p.ffmpeg_calls > 0 THEN @ + 1 ELSE @,
                                        !.i = p.i + 1,
                                        !.pc = LoopPc(p.i + 1, p.n_frames, p.frame_length,
                                                      p.y_len)]]
    /\ UNCHANGED <<mode, preset_vars, draw_vars, task_vars, cvf_vars, eed_vars, output_file, resized_image>>

\* faulty variant: only frame_0000.png resized when a side of it is odd
FixFrameDimensions_first_only(r) ==
    /\ pav[r].pc = "encode"
    /\ LET first == frame_store[r].files[0]
           after == [pav[r] EXCEPT !.background = None, !.frame = -1, !.raw = None,
                                   !.flat = FALSE,
                                   !.heights = None, !.last_heights = None]
       IN  /\ pav' = [pav EXCEPT ![r] = [after EXCEPT !.pc = "ffmpeg"]]
           /\ frame_store' = [frame_store EXCEPT ![r].files[0] =
                  IF first # NoFile /\ IsOdd(first) /\ ResizeAccepts(adjusted_size(first))
                  THEN adjusted_size(first) ELSE @]
    /\ UNCHANGED <<mode, preset_vars, draw_vars, task_vars, cvf_vars, eed_vars, output_file, resized_image, prev_heights>>

\* lines 237-259: check frame_0000.png and, when a side is odd, resize every
\* frame of the directory in place
FixFrameDimensions(r) ==
    /\ pav[r].pc = "encode"
    /\ LET first == frame_store[r].files[0]
           target == adjusted_size(first)
           \* the per-frame locals are dead from here on
           after == [pav[r] EXCEPT !.background = None, !.frame = -1, !.raw = None,
                                   !.flat = FALSE,
                                   !.heights = None, !.last_heights = None]
       IN  IF first = NoFile \/ ~IsOdd(first)
           THEN /\ pav' = [pav EXCEPT ![r] = [after EXCEPT !.pc = "ffmpeg"]]
                /\ UNCHANGED frame_store
           ELSE IF ~ResizeAccepts(target)
           THEN /\ pav' = [pav EXCEPT ![r] =
                       [after EXCEPT !.pc = "except",
                           !.exc = Exc("ValueError", "height and width must be > 0", "")]]
                /\ UNCHANGED frame_store
           ELSE \E done \in SUBSET Written(r) :
                /\ frame_store' = [frame_store EXCEPT ![r].files =
                       [k \in FrameIdx |-> IF k \in done THEN target ELSE @[k]]]
                /\ LET rewritten == [after EXCEPT
                           !.writes = [k \in FrameIdx |->
                                          IF k \in done THEN @[k] + 1 ELSE @[k]],
                           !.late_writes =
                               IF done # {} /\ after.ffmpeg_calls > 0
                               THEN @ + 1 ELSE @]
                   IN  IF done = Written(r)
                       THEN pav' = [pav EXCEPT ![r] = [rewritten EXCEPT !.pc = "ffmpeg"]]
                       ELSE pav' = [pav EXCEPT ![r] =
                               [rewritten EXCEPT !.pc = "except",
                                   !.exc = Exc("OSError", "cannot resize a frame", "")]]
    /\ UNCHANGED <<mode, preset_vars, draw_vars, task_vars, cvf_vars, eed_vars, output_file, resized_image, prev_heights>>

\* libx264 with yuv420p refuses a frame with an odd side
EncoderAccepts(r) == \A k \in Written(r) : ~IsOdd(frame_store[r].files[k])

\* faulty variant: the message of the exception without e.stderr
ffmpeg_outcome_without_stderr(returncode, stderr, created, readable) ==
    IF returncode # 0
    THEN [pc |-> "except", exc |-> Exc("Exception", "FFmpeg error", "")]
    ELSE IF ~created
    THEN [pc |-> "except",
          exc |-> Exc("Exception", "Failed to create output video file", "")]
    ELSE IF ~readable
    THEN [pc |-> "except", exc |-> Exc("OSError", "cannot read the output file", "")]
    ELSE [pc |-> "cleanup", exc |-> NoExc]

\* faulty variant: the output file not looked at after ffmpeg exited 0
ffmpeg_outcome_unverified(returncode, stderr, created, readable) ==
    IF returncode # 0
    THEN [pc |-> "except", exc |-> Exc("Exception", "FFmpeg error: ", stderr)]
    ELSE [pc |-> "cleanup", exc |-> NoExc]

\* lines 262-285: where control goes after subprocess.run, and with which exception
ffmpeg_outcome(returncode, stderr, created, readable) ==
    IF returncode # 0
    THEN [pc |-> "except", exc |-> Exc("Exception", "FFmpeg error: ", stderr)]
    ELSE IF ~created
    THEN [pc |-> "except",
          exc |-> Exc("Exception", "Failed to create output video file", "")]
    ELSE IF ~readable
    THEN [pc |-> "except", exc |-> Exc("OSError", "cannot read the output file", "")]
    ELSE [pc |-> "cleanup", exc |-> NoExc]

\* lines 261-285: run ffmpeg, then check that the output file exists and opens
RunFFmpeg(r) ==
    /\ pav[r].pc = "ffmpeg"
    /\ \E returncode \in {0, 1}, stderr \in StderrTexts, created \in BOOLEAN,
          readable \in BOOLEAN :
        LET out == ffmpeg_outcome(returncode, stderr, created, readable)
        IN  /\ returncode = 0 => EncoderAccepts(r)
            /\ Benign => (stderr = "stderr_a" /\ created /\ readable)
            /\ output_file' = [output_file EXCEPT ![r] = created]
            /\ pav' = [pav EXCEPT ![r].ffmpeg_calls = @ + 1,
                                  ![r].returncode = returncode,
                                  ![r].stderr = stderr,
                                  ![r].verified = (out.pc = "cleanup"),
                                  ![r].pc = out.pc,
                                  ![r].exc = out.exc]
    /\ UNCHANGED <<mode, preset_vars, draw_vars, task_vars, cvf_vars, eed_vars, frame_store, resized_image, prev_heights>>

\* lines 287-292: remove every frame, then the directory; the first failure raises
CleanupFrames(r) ==
    /\ pav[r].pc = "cleanup"
    /\ \E left \in SUBSET Written(r), rmdir_ok \in BOOLEAN :
        /\ Benign => (left = {} /\ rmdir_ok)
        /\ IF left = {} /\ rmdir_ok
           THEN /\ frame_store' = [frame_store EXCEPT ![r] = NoDir]
                /\ pav' = [pav EXCEPT ![r].pc = "returned"]
           ELSE /\ frame_store' = [frame_store EXCEPT ![r].files =
                       [k \in FrameIdx |-> IF k \in left THEN @[k] ELSE NoFile]]
                /\ pav' = [pav EXCEPT ![r].pc = "except", ![r].delete_failed = TRUE,
                                      ![r].exc = Exc("OSError", "cannot remove", "")]
    /\ UNCHANGED <<mode, preset_vars, draw_vars, task_vars, cvf_vars, eed_vars, output_file, resized_image, prev_heights>>

\* faulty variant: the handler re-raises without removing anything
HandleException_keeps_frames(r) ==
    /\ pav[r].pc = "except"
    /\ pav' = [pav EXCEPT ![r].pc = "raised"]
    /\ UNCHANGED <<mode, preset_vars, draw_vars, task_vars, cvf_vars, eed_vars, frame_store, output_file, resized_image,
                   prev_heights>>

\* lines 294-308: log, remove what the frames directory holds, each failure
\* logged and passed over, and re-raise
HandleException(r) ==
    /\ pav[r].pc = "except"
    /\ IF pav[r].frames_dir /\ frame_store[r].exists
       THEN \E left \in SUBSET Written(r), rmdir_ok \in BOOLEAN :
            /\ Benign => (left = {} /\ rmdir_ok)
            /\ IF left = {} /\ rmdir_ok
               THEN /\ frame_store' = [frame_store EXCEPT ![r] = NoDir]
                    /\ pav' = [pav EXCEPT ![r].pc = "raised"]
               ELSE /\ frame_store' = [frame_store EXCEPT ![r].files =
                           [k \in FrameIdx |-> IF k \in left THEN @[k] ELSE NoFile]]
                    /\ pav' = [pav EXCEPT ![r].pc = "raised", ![r].delete_failed = TRUE]
       ELSE /\ pav' = [pav EXCEPT ![r].pc = "raised"]
            /\ UNCHANGED frame_store
    /\ UNCHANGED <<mode, preset_vars, draw_vars, task_vars, cvf_vars, eed_vars, output_file, resized_image, prev_heights>>

\* the caller has the result; the next call gets a fresh directory from mkdtemp
\* and a fresh output path
Done(r) ==
    /\ pav[r].pc \in {"returned", "raised"}
    /\ pav' = [pav EXCEPT ![r] = IdleRun]
    /\ frame_store' = [frame_store EXCEPT ![r] = NoDir]
    /\ output_file' = [output_file EXCEPT ![r] = FALSE]
    /\ UNCHANGED <<mode, preset_vars, draw_vars, task_vars, cvf_vars, eed_vars, resized_image, prev_heights>>

---------------------------------------------------------------------------
(* create_video_from_frames *)

IdleCvf ==
    [pc |-> "idle",
     has_callback |-> FALSE,
     frames_dir |-> "given",     \* the directory ffmpeg is pointed at
     progress |-> <<>>,          \* the percents passed to progress_callback, in order
     ffmpeg_calls |-> 0, returncode |-> 0, stderr |-> "",
     exc |-> NoExc]

NoCvfFiles ==
    [given |-> NoFiles,          \* the frames of the directory passed in
     resized |-> NoDir,          \* the directory of resized frames
     output |-> FALSE]           \* whether output_path exists

Present(files) == {k \in FrameIdx : files[k] # NoFile}

\* the first of sorted(os.listdir(frames_dir)) that ends with .png
first_frame(files) == CHOOSE k \in Present(files) : \A j \in Present(files) : k <= j

Callback(c, percent) ==
    IF c.has_callback THEN [c EXCEPT !.progress = Append(@, percent)] ELSE c

\* lines 24-65: find the first frame, resize every frame into a new directory
\* when a side of it is odd, report 85
CvfPrepare ==
    /\ mode = "cvf"
    /\ cvf.pc = "idle"
    /\ \E given \in [FrameIdx -> FrameSizes \cup {NoFile}], has_callback \in BOOLEAN :
        LET c == [IdleCvf EXCEPT !.has_callback = has_callback]
            fs == [NoCvfFiles EXCEPT !.given = given]
        IN  IF Present(given) = {}
            THEN /\ cvf' = [c EXCEPT !.pc = "raised",
                       !.exc = Exc("ValueError", "No frames found in directory", "")]
                 /\ cvf_files' = fs
            ELSE LET first == given[first_frame(given)]
                     target == adjusted_size(first)
                 IN  IF ~IsOdd(first)
                     THEN /\ cvf' = [Callback(c, 85) EXCEPT !.pc = "ffmpeg"]
                          /\ cvf_files' = fs
                     ELSE \E n \in 0..MaxFrames :
                          \* the frames are resized in sorted order; a failure stops it
                          LET done == {k \in Present(given) : k < n}
                          IN  /\ n > 0 => (n - 1) \in Present(given)
                              /\ ResizeAccepts(target) \/ done = {}
                              /\ cvf_files' = [fs EXCEPT !.resized =
                                    [exists |-> TRUE,
                                     files |-> [k \in FrameIdx |->
                                        IF k \in done THEN target ELSE NoFile]]]
                              /\ IF done = Present(given)
                                 THEN cvf' = [Callback(c, 85) EXCEPT !.pc = "ffmpeg",
                                                 !.frames_dir = "resized"]
                                 ELSE cvf' = [c EXCEPT !.pc = "raised",
                                         !.exc = Exc("OSError", "cannot resize a frame", "")]
    /\ UNCHANGED <<mode, preset_vars, draw_vars, task_vars, pav_vars, eed_vars>>

CvfInput == IF cvf.frames_dir = "resized" THEN cvf_files.resized.files ELSE cvf_files.given

\* faulty variant: 100 reported as soon as ffmpeg exits 0, before the output file is looked at
cvf_outcome_reports_early(ran, created) ==
    IF ran.returncode # 0
    THEN [ran EXCEPT !.pc = "raised",
                     !.exc = Exc("Exception", "FFmpeg error: ", ran.stderr)]
    ELSE IF ~created
    THEN [Callback(ran, 100) EXCEPT !.pc = "raised",
                     !.exc = Exc("Exception", "Output file not created: ", "")]
    ELSE [Callback(ran, 100) EXCEPT !.pc = "returned"]

\* lines 96-112: the call's end after subprocess.run
cvf_outcome(ran, created) ==
    IF ran.returncode # 0
    THEN [ran EXCEPT !.pc = "raised",
                     !.exc = Exc("Exception", "FFmpeg error: ", ran.stderr)]
    ELSE IF ~created
    THEN [ran EXCEPT !.pc = "raised",
                     !.exc = Exc("Exception", "Output file not created: ", "")]
    ELSE [Callback(ran, 100) EXCEPT !.pc = "returned"]

\* lines 67-112: run ffmpeg, check the output file, report 100
CvfRunFFmpeg ==
    /\ cvf.pc = "ffmpeg"
    /\ \E returncode \in {0, 1}, stderr \in StderrTexts, created \in BOOLEAN :
        LET ran == [cvf EXCEPT !.ffmpeg_calls = @ + 1, !.returncode = returncode,
                               !.stderr = stderr]
        IN  /\ returncode = 0 => \A k \in Present(CvfInput) : ~IsOdd(CvfInput[k])
            /\ cvf_files' = [cvf_files EXCEPT !.output = created]
            /\ cvf' = cvf_outcome(ran, created)
    /\ UNCHANGED <<mode, preset_vars, draw_vars, task_vars, pav_vars, eed_vars>>

\* the caller has the result; the next call is given another directory
CvfDone ==
    /\ cvf.pc \in {"returned", "raised"}
    /\ cvf' = IdleCvf
    /\ cvf_files' = NoCvfFiles
    /\ UNCHANGED <<mode, preset_vars, draw_vars, task_vars, pav_vars, eed_vars>>

---------------------------------------------------------------------------
(* ensure_even_dimensions *)

Image(w, h) == <<"image", w, h>>
Garbage == <<"garbage", 0, 0>>
Missing == <<"missing", 0, 0>>

IsImage(f) == f[1] = "image"

NoImages == [k \in Paths |-> Missing]

\* the last call (argument, file it read, result, whether it saved a copy) and
\* the argument and result of the call before it
NoCall == [called |-> FALSE, arg |-> 0, file |-> Missing, save_ok |-> FALSE,
           result |-> <<0, 0, 0>>, wrote |-> FALSE,
           prev_called |-> FALSE, prev_arg |-> 0, prev_result |-> <<0, 0, 0>>]

\* os.path.join(tempfile.gettempdir(), f"resized_h264_{os.path.basename(image_path)}")
temp_image_path(image_path) == image_path + 1

\* faulty variant: a copy saved for every decodable image, even-sided or not
ensure_even_dimensions_always_copies(file, image_path, save_ok) ==
    IF ~IsImage(file)
    THEN <<image_path, 0, 0>>
    ELSE LET new_width == adjusted(file[2])
             new_height == adjusted(file[3])
         IN  IF ~ResizeAccepts(<<new_width, new_height>>) \/ ~save_ok
             THEN <<image_path, 0, 0>>
             ELSE <<temp_image_path(image_path), new_width, new_height>>

\* faulty variant: the copy's path returned whether or not the save succeeded
ensure_even_dimensions_unchecked_save(file, image_path, save_ok) ==
    IF ~IsImage(file)
    THEN <<image_path, 0, 0>>
    ELSE LET width == file[2]
             height == file[3]
             new_width == adjusted(width)
             new_height == adjusted(height)
         IN  IF width % 2 = 0 /\ height % 2 = 0
             THEN <<image_path, width, height>>
             ELSE IF ~ResizeAccepts(<<new_width, new_height>>)
             THEN <<image_path, 0, 0>>
             ELSE <<temp_image_path(image_path), new_width, new_height>>

\* lines 20-48: the tuple returned for the file at image_path; save_ok tells
\* whether resized_img.save succeeds
ensure_even_dimensions(file, image_path, save_ok) ==
    IF ~IsImage(file)
    THEN <<image_path, 0, 0>>
    ELSE LET width == file[2]
             height == file[3]
             new_width == adjusted(width)
             new_height == adjusted(height)
         IN  IF width % 2 = 0 /\ height % 2 = 0
             THEN <<image_path, width, height>>
             ELSE IF ~ResizeAccepts(<<new_width, new_height>>) \/ ~save_ok
             THEN <<image_path, 0, 0>>
             ELSE <<temp_image_path(image_path), new_width, new_height>>

\* the caller stores an image, or a file that is no image, at path 0
Upload ==
    /\ mode = "eed"
    /\ \E f \in {Image(w, h) : w \in Dims, h \in Dims} \cup {Garbage, Missing} :
        image_files' = [NoImages EXCEPT ![0] = f]
    /\ eed' = NoCall
    /\ UNCHANGED <<mode, preset_vars, draw_vars, task_vars, pav_vars, cvf_vars>>

\* one call of ensure_even_dimensions(image_path); Image.open may fail on a
\* file that cannot be read at the time of the call
EnsureEven ==
    /\ mode = "eed"
    /\ \E image_path \in Paths, readable \in BOOLEAN, save_ok \in BOOLEAN :
        LET file == IF readable THEN image_files[image_path] ELSE Missing
            result == ensure_even_dimensions(file, image_path, save_ok)
        IN  /\ temp_image_path(image_path) \in Paths
            /\ eed' = [called |-> TRUE, arg |-> image_path, file |-> file,
                       save_ok |-> save_ok, result |-> result,
                       wrote |-> (result[1] # image_path),
                       prev_called |-> eed.called, prev_arg |-> eed.arg,
                       prev_result |-> eed.result]
            /\ image_files' =
                 IF result[1] # image_path
                 THEN [image_files EXCEPT ![result[1]] = Image(result[2], result[3])]
                 ELSE image_files
    /\ UNCHANGED <<mode, preset_vars, draw_vars, task_vars, pav_vars, cvf_vars>>

---------------------------------------------------------------------------
(* The bars of a frame: lines 134-176 of process_audio_visualization *)

\* line 138: img_width * (1 - 2 * horizontal_margin)
effective_width(img_width, horizontal_margin) ==
    (img_width * (Scale - 2 * horizontal_margin)) \div Scale

\* line 139: (effective_width * bar_width_ratio) / n_bars
bar_width(img_width, style) ==
    ((effective_width(img_width, style.horizontal_margin) * style.bar_width_ratio)
        \div Scale) \div style.bar_count

\* line 140: (effective_width * (1 - bar_width_ratio)) / (n_bars - 1),
\* for n_bars > 1
bar_spacing(img_width, style) ==
    ((effective_width(img_width, style.horizontal_margin)
        * (Scale - style.bar_width_ratio)) \div Scale) \div (style.bar_count - 1)

\* line 154: img_width * horizontal_margin
margin_x(img_width, style) == (img_width * style.horizontal_margin) \div Scale

\* lines 157, 159: bar_section_height = img_height * 0.8, then
\* max_bar_height = bar_section_height * 0.8
max_bar_height(img_height) == (((img_height * 4) \div 5) * 4) \div 5

\* line 158: img_height * (0.1 + 0.8 * vertical_position)
base_y(img_height, style) ==
    img_height \div 10 + (((img_height * 4) \div 5) * style.vertical_position) \div Scale

\* lines 150, 163: bars_heights * bar_height_scale, then height * max_bar_height
bar_height(amplitude, img_height, style) ==
    (amplitude * style.bar_height_scale * max_bar_height(img_height))
        \div (Scale * Scale)

\* lines 162-176: the rectangle of bar j (0-based), amplitude its resampled value
rectangle(j, amplitude, img_width, img_height, style) ==
    LET height == bar_height(amplitude, img_height, style)
    IN  [x |-> margin_x(img_width, style)
                 + j * (bar_width(img_width, style) + bar_spacing(img_width, style)),
         y |-> IF 2 * style.vertical_position <= Scale
               THEN base_y(img_height, style)
               ELSE base_y(img_height, style) - height,
         width |-> bar_width(img_width, style),
         height |-> height]

\* lines 134-176: the rectangles drawn for the amplitudes amps (one per bar),
\* or the exception of the division of line 140
draw_bars(amps, img_width, img_height, style) ==
    IF style.bar_count - 1 = 0
    THEN [exc |-> Exc("ZeroDivisionError", "float division by zero", ""),
          rects |-> <<>>]
    ELSE [exc |-> NoExc,
          rects |-> [k \in 1..style.bar_count |->
                        rectangle(k - 1, amps[k], img_width, img_height, style)]]

NoBars == [drawn |-> FALSE, style |-> <<>>, amps |-> <<>>, exc |-> NoExc, rects |-> <<>>]

\* the bars of one frame for a style and one amplitude per bar
DrawBars ==
    /\ mode = "draw"
    /\ ~bars.drawn
    /\ \E bar_count \in BarCounts, bar_width_ratio \in BarWidthRatios,
          bar_height_scale \in BarHeightScales,
          vertical_position \in VerticalPositions,
          horizontal_margin \in HorizontalMargins :
        \E amps \in [1..bar_count -> Amplitudes] :
            LET style == [bar_count |-> bar_count, bar_width_ratio |-> bar_width_ratio,
                          bar_height_scale |-> bar_height_scale,
                          vertical_position |-> vertical_position,
                          horizontal_margin |-> horizontal_margin]
                out == draw_bars(amps, ImgWidth, ImgHeight, style)
            IN  bars' = [drawn |-> TRUE, style |-> style, amps |-> amps,
                         exc |-> out.exc, rects |-> out.rects]
    /\ UNCHANGED <<mode, preset_vars, task_vars, pav_vars, cvf_vars, eed_vars>>

\* lines 208-213: the frame is saved and the figure closed; the next frame
\* starts from an empty figure
CloseFigure ==
    /\ bars.drawn
    /\ bars' = NoBars
    /\ UNCHANGED <<mode, preset_vars, task_vars, pav_vars, cvf_vars, eed_vars>>

---------------------------------------------------------------------------
(* Background tasks: src/utils/background_processor.py *)

\* the parameters of process_audio_visualization (audio_processor.py 15-30)
PavParameters ==
    {"audio_path", "image_path", "output_path", "color", "fps", "bar_count",
     "bar_width_ratio", "bar_height_scale", "glow_effect", "glow_intensity",
     "responsiveness", "smoothing", "vertical_position", "horizontal_margin"}

\* the keyword arguments of the call of lines 76-92
TaskKeywords ==
    {"audio_path", "image_path", "output_path", "color", "fps", "bar_count",
     "bar_width_ratio", "bar_height_scale", "glow_effect", "glow_intensity",
     "responsiveness", "smoothing", "vertical_position", "horizontal_margin",
     "progress_callback"}

\* line 59: max(int(duration * 1.5), 10)
estimated_seconds(duration) ==
    IF (duration * 3) \div 2 >= 10 THEN (duration * 3) \div 2 ELSE 10

\* a BackgroundTask row; history lists the values stored in progress and
\* status_history those stored in status, in order
NoTask ==
    [exists |-> FALSE, status |-> "", progress |-> 0, estimated_time |-> 0,
     error_message |-> "", output_filename |-> "", history |-> <<>>,
     status_history |-> <<>>]

\* str(e) of the exception librosa.load raises: a text, or nothing when the
\* exception was raised without arguments
LoadErrorTexts == {"cannot load audio", ""}

\* the row with status set
SetStatus(row, status) ==
    [row EXCEPT !.status = status, !.status_history = Append(@, status)]

\* the thread of a task; failures names what the environment of the task
\* lacked: "preset", "audio", "pipeline", "records"
NoWorker == [pc |-> "none", exc |-> NoExc, failures |-> {}]

IdleMain == [pc |-> "idle", task_id |-> 0]

\* the row with progress set to percent
StoreProgress(row, percent) ==
    [row EXCEPT !.progress = percent, !.history = Append(@, percent)]

\* lines 137-145: the row after the except clause for exception e
failed_row(row, e) ==
    [SetStatus(row, "failed") EXCEPT !.error_message = e.msg[1]]

\* lines 155-175: a new task id, its row committed as pending with progress 0;
\* requests are handled one after another, each after the thread of the one
\* before has ended
StartTask ==
    /\ mode = "task"
    /\ main.pc = "idle"
    /\ \A t \in TaskIds : tasks[t].exists => workers[t].pc = "ended"
    /\ \E t \in TaskIds :
        /\ ~tasks[t].exists
        /\ \A u \in TaskIds : u < t => tasks[u].exists
        /\ tasks' = [tasks EXCEPT ![t] =
              StoreProgress(SetStatus([NoTask EXCEPT !.exists = TRUE], "pending"), 0)]
        /\ main' = [pc |-> "created", task_id |-> t]
    /\ UNCHANGED <<mode, preset_vars, pav_vars, cvf_vars, eed_vars, draw_vars, workers,
                   running_tasks, videos>>

\* lines 178-183: thread.start()
ThreadStart ==
    /\ main.pc = "created"
    /\ workers' = [workers EXCEPT ![main.task_id].pc = "lookup"]
    /\ main' = [main EXCEPT !.pc = "started"]
    /\ UNCHANGED <<mode, preset_vars, pav_vars, cvf_vars, eed_vars, draw_vars, tasks,
                   running_tasks, videos>>

\* lines 186-188: running_tasks[task_id] = thread; return task
StoreThread ==
    /\ main.pc = "started"
    /\ running_tasks' = running_tasks \cup {main.task_id}
    /\ main' = IdleMain
    /\ UNCHANGED <<mode, preset_vars, pav_vars, cvf_vars, eed_vars, draw_vars, tasks, workers,
                   videos>>

\* lines 32-52: the row and the preset are looked up; a missing preset fails
\* the task, otherwise it turns to processing with progress 5
TaskLookup(t) ==
    /\ workers[t].pc = "lookup"
    /\ \E preset \in BOOLEAN :
        IF ~preset
        THEN /\ tasks' = [tasks EXCEPT ![t] =
                   [SetStatus(@, "failed") EXCEPT !.error_message = "Preset not found"]]
             /\ workers' = [workers EXCEPT ![t].pc = "finally",
                                           ![t].failures = @ \cup {"preset"}]
        ELSE /\ tasks' = [tasks EXCEPT ![t] =
                   StoreProgress(SetStatus(@, "processing"), 5)]
             /\ workers' = [workers EXCEPT ![t].pc = "estimate"]
    /\ UNCHANGED <<mode, preset_vars, pav_vars, cvf_vars, eed_vars, draw_vars, main,
                   running_tasks, videos>>

\* lines 55-62: the audio is loaded and the estimate stored
TaskEstimate(t) ==
    /\ workers[t].pc = "estimate"
    /\ \E ok \in BOOLEAN, duration \in Durations, text \in LoadErrorTexts :
        IF ~ok
        THEN /\ workers' = [workers EXCEPT ![t].pc = "handler",
                    ![t].exc = Exc("LoadError", text, ""),
                    ![t].failures = @ \cup {"audio"}]
             /\ UNCHANGED tasks
        ELSE /\ tasks' = [tasks EXCEPT ![t].estimated_time = estimated_seconds(duration)]
             /\ workers' = [workers EXCEPT ![t].pc = "call"]
    /\ UNCHANGED <<mode, preset_vars, pav_vars, cvf_vars, eed_vars, draw_vars, main,
                   running_tasks, videos>>

\* lines 76-92: what the call of process_audio_visualization with the keyword
\* arguments keywords raises; ok tells whether the pipeline, once entered,
\* decodes, renders and encodes without error
call_outcome(keywords, ok) ==
    IF ~(keywords \subseteq PavParameters)
    THEN Exc("TypeError",
             "process_audio_visualization() got an unexpected keyword argument",
             "progress_callback")
    ELSE IF ~ok
    THEN Exc("Exception", "pipeline failed", "")
    ELSE NoExc

\* lines 114-133: the row of a task whose video was made
completed_row(row) ==
    [StoreProgress(SetStatus(row, "completed"), 100) EXCEPT
        !.estimated_time = 0, !.output_filename = "output.mp4"]

\* lines 64-135: the pipeline is called with update_progress; when it returns,
\* the audio and image records are looked up, the OutputVideo row is added
\* and the task completed
TaskRunPipeline(t) ==
    /\ workers[t].pc = "call"
    /\ \E ok \in BOOLEAN, records \in BOOLEAN :
        LET e == call_outcome(TaskKeywords, ok)
            lacking == (IF ok THEN {} ELSE {"pipeline"})
                           \cup (IF records THEN {} ELSE {"records"})
        IN  IF e # NoExc
            THEN /\ workers' = [workers EXCEPT ![t].pc = "handler", ![t].exc = e,
                                               ![t].failures = @ \cup lacking]
                 /\ UNCHANGED <<tasks, videos>>
            ELSE IF ~records
            THEN /\ tasks' = [tasks EXCEPT ![t] =
                       [SetStatus(@, "failed") EXCEPT
                           !.error_message = "Audio or image file not found"]]
                 /\ workers' = [workers EXCEPT ![t].pc = "finally",
                                               ![t].failures = @ \cup lacking]
                 /\ UNCHANGED videos
            ELSE /\ tasks' = [tasks EXCEPT ![t] = completed_row(@)]
                 /\ videos' = videos + 1
                 /\ workers' = [workers EXCEPT ![t].pc = "finally"]
    /\ UNCHANGED <<mode, preset_vars, pav_vars, cvf_vars, eed_vars, draw_vars, main, running_tasks>>

\* lines 137-145: the except clause marks the task failed with str(e)
TaskHandler(t) ==
    /\ workers[t].pc = "handler"
    /\ tasks' = [tasks EXCEPT ![t] = failed_row(@, workers[t].exc)]
    /\ workers' = [workers EXCEPT ![t].pc = "finally"]
    /\ UNCHANGED <<mode, preset_vars, pav_vars, cvf_vars, eed_vars, draw_vars, main,
                   running_tasks, videos>>

\* lines 147-150: the finally clause drops the task from running_tasks
TaskFinally(t) ==
    /\ workers[t].pc = "finally"
    /\ running_tasks' = running_tasks \ {t}
    /\ workers' = [workers EXCEPT ![t].pc = "ended"]
    /\ UNCHANGED <<mode, preset_vars, pav_vars, cvf_vars, eed_vars, draw_vars, main, tasks, videos>>

---------------------------------------------------------------------------
(* delete_preset: src/app.py 160-175; each request runs in its own thread *)

IdleRequest == [pc |-> "idle", preset_id |-> 0, result |-> "", deleted |-> {}]

\* line 163: Preset.query.get_or_404(preset_id)
DeleteGet(q) ==
    /\ mode = "presets"
    /\ requests[q].pc = "idle"
    /\ \E preset_id \in PresetIds :
        requests' = [requests EXCEPT ![q] =
            IF preset_id \in presets
            THEN [IdleRequest EXCEPT !.pc = "check", !.preset_id = preset_id]
            ELSE [IdleRequest EXCEPT !.pc = "done", !.preset_id = preset_id,
                                     !.result = "404"]]
    /\ UNCHANGED <<mode, pav_vars, cvf_vars, eed_vars, draw_vars, task_vars, presets>>

\* lines 166-169: the request is refused when Preset.query.count() <= 1
DeleteCheck(q) ==
    /\ requests[q].pc = "check"
    /\ requests' = [requests EXCEPT ![q] =
          IF Cardinality(presets) <= 1
          THEN [@ EXCEPT !.pc = "done", !.result = "rejected"]
          ELSE [@ EXCEPT !.pc = "delete"]]
    /\ UNCHANGED <<mode, pav_vars, cvf_vars, eed_vars, draw_vars, task_vars, presets>>

\* lines 171-175: db.session.delete(preset); db.session.commit(); the commit
\* fails when another request has deleted the row meanwhile
DeleteCommit(q) ==
    /\ requests[q].pc = "delete"
    /\ IF requests[q].preset_id \in presets
       THEN /\ presets' = presets \ {requests[q].preset_id}
            /\ requests' = [requests EXCEPT ![q].pc = "done", ![q].result = "deleted",
                                            ![q].deleted = {requests[q].preset_id}]
       ELSE /\ requests' = [requests EXCEPT ![q].pc = "done", ![q].result = "error"]
            /\ UNCHANGED presets
    /\ UNCHANGED <<mode, pav_vars, cvf_vars, eed_vars, draw_vars, task_vars>>

\* the response is sent; the thread takes the next request
RequestDone(q) ==
    /\ requests[q].pc = "done"
    /\ requests' = [requests EXCEPT ![q] = IdleRequest]
    /\ UNCHANGED <<mode, pav_vars, cvf_vars, eed_vars, draw_vars, task_vars, presets>>

---------------------------------------------------------------------------

Init ==
    /\ mode \in {"pav", "cvf", "eed", "draw", "task", "presets"}
    /\ pav = [r \in Runs |-> IdleRun]
    /\ frame_store = [r \in Runs |-> NoDir]
    /\ output_file = [r \in Runs |-> FALSE]
    /\ resized_image = None
    /\ prev_heights = None
    /\ cvf = IdleCvf
    /\ cvf_files = NoCvfFiles
    /\ eed = NoCall
    /\ image_files = NoImages
    /\ bars = NoBars
    /\ tasks = [t \in TaskIds |-> NoTask]
    /\ workers = [t \in TaskIds |-> NoWorker]
    /\ main = IdleMain
    /\ running_tasks = {}
    /\ videos = 0
    /\ presets = PresetIds
    /\ requests = [q \in Requests |-> IdleRequest]

Next ==
    \/ \E r \in Runs : LoadAudio(r)
    \/ \E r \in Runs : PrepareImage(r)
    \/ \E r \in Runs : RenderFrame(r)
    \/ \E r \in Runs : FixFrameDimensions(r)
    \/ \E r \in Runs : RunFFmpeg(r)
    \/ \E r \in Runs : CleanupFrames(r)
    \/ \E r \in Runs : HandleException(r)
    \/ \E r \in Runs : Done(r)
    \/ CvfPrepare
    \/ CvfRunFFmpeg
    \/ CvfDone
    \/ Upload
    \/ EnsureEven
    \/ DrawBars
    \/ CloseFigure
    \/ StartTask
    \/ ThreadStart
    \/ StoreThread
    \/ \E t \in TaskIds : TaskLookup(t)
    \/ \E t \in TaskIds : TaskEstimate(t)
    \/ \E t \in TaskIds : TaskRunPipeline(t)
    \/ \E t \in TaskIds : TaskHandler(t)
    \/ \E t \in TaskIds : TaskFinally(t)
    \/ \E q \in Requests : DeleteGet(q)
    \/ \E q \in Requests : DeleteCheck(q)
    \/ \E q \in Requests : DeleteCommit(q)
    \/ \E q \in Requests : RequestDone(q)

Spec == Init /\ [][Next]_vars

\* several request threads inside process_audio_visualization at once
InitConcurrent ==
    /\ mode = "threads"
    /\ pav = [r \in Runs |-> IdleRun]
    /\ frame_store = [r \in Runs |-> NoDir]
    /\ output_file = [r \in Runs |-> FALSE]
    /\ resized_image = None
    /\ prev_heights = None
    /\ cvf = IdleCvf
    /\ cvf_files = NoCvfFiles
    /\ eed = NoCall
    /\ image_files = NoImages
    /\ bars = NoBars
    /\ tasks = [t \in TaskIds |-> NoTask]
    /\ workers = [t \in TaskIds |-> NoWorker]
    /\ main = IdleMain
    /\ running_tasks = {}
    /\ videos = 0
    /\ presets = PresetIds
    /\ requests = [q \in Requests |-> IdleRequest]

NextConcurrent ==
    \/ \E r \in Runs : LoadAudio(r)
    \/ \E r \in Runs : PrepareImage(r)
    \/ \E r \in Runs : RenderFrame(r)
    \/ \E r \in Runs : FixFrameDimensions(r)
    \/ \E r \in Runs : RunFFmpeg(r)
    \/ \E r \in Runs : CleanupFrames(r)
    \/ \E r \in Runs : HandleException(r)
    \/ \E r \in Runs : Done(r)

SpecConcurrent == InitConcurrent /\ [][NextConcurrent]_vars

---------------------------------------------------------------------------
(* The claims *)

Terminal(r) == pav[r].pc \in {"returned", "raised"}

\* the frames directory of run r and every file in it are gone
Purged(r) == ~frame_store[r].exists /\ Written(r) = {}

\* ffmpeg was run in run r and exited with a non-zero status
FFmpegFailed(r) == pav[r].ffmpeg_calls > 0 /\ pav[r].returncode # 0

\* C1: when a call that made a frames directory has returned True or raised,
\* and none of its delete operations failed, the directory and every frame
\* file in it are gone.
C1_PurgedAtExit ==
    \A r \in Runs :
        (Terminal(r) /\ pav[r].frames_dir /\ ~pav[r].delete_failed) => Purged(r)

\* a run that saved frames, saw ffmpeg fail and raised with its directory purged
C1_Witness ==
    \E r \in Runs :
        /\ pav[r].pc = "raised" /\ pav[r].frames_dir /\ ~pav[r].delete_failed
        /\ pav[r].saved >= 2 /\ pav[r].ffmpeg_calls = 1
        /\ Purged(r)

C3_SuccessNeedsOutput ==
    /\ \A r \in Runs :
        /\ pav[r].pc \in {"cleanup", "returned"} =>
              pav[r].ffmpeg_calls = 1 /\ pav[r].returncode = 0 /\ output_file[r]
        /\ (Terminal(r) /\ pav[r].ffmpeg_calls > 0 /\ pav[r].returncode = 0
              /\ ~output_file[r]) => pav[r].pc = "raised"
    /\ cvf.pc = "returned" =>
          cvf.ffmpeg_calls = 1 /\ cvf.returncode = 0 /\ cvf_files.output
    /\ (cvf.pc \in {"returned", "raised"} /\ cvf.ffmpeg_calls > 0
          /\ cvf.returncode = 0 /\ ~cvf_files.output) => cvf.pc = "raised"

\* ffmpeg exited 0 without an output file and process_audio_visualization raised
C3_Witness ==
    \E r \in Runs :
        /\ pav[r].pc = "raised" /\ pav[r].ffmpeg_calls = 1 /\ pav[r].returncode = 0
        /\ ~output_file[r]
        /\ pav[r].exc.msg[1] = "Failed to create output video file"

\* C4: when the audio cannot be loaded the call raises with no frames
\* directory made, no frame written and ffmpeg not run.
C4_LoadFailureBeforeFrames ==
    \A r \in Runs :
        (pav[r].pc # "idle" /\ ~pav[r].audio_ok) =>
            /\ pav[r].pc \in {"except", "raised"}
            /\ ~pav[r].frames_dir
            /\ ~frame_store[r].exists
            /\ Written(r) = {}
            /\ pav[r].saved = 0
            /\ pav[r].ffmpeg_calls = 0

\* the call has raised the load error
C4_Witness ==
    \E r \in Runs :
        /\ pav[r].pc = "raised" /\ ~pav[r].audio_ok
        /\ pav[r].exc.type = "LoadError"
        /\ ~frame_store[r].exists

\* the rendering of frame pav[r].failed_frame failed
FrameFailed(r) == pav[r].failed_frame >= 0

\* what C5 says of the run whatever the deletes do: it stops at the failing
\* frame, ffmpeg is not run, there is no output, the failure is raised
AbortsAtFrame(r) ==
    /\ pav[r].pc \in {"except", "raised"}
    /\ pav[r].exc.type # "none"
    /\ pav[r].i = pav[r].failed_frame
    /\ pav[r].saved = pav[r].failed_frame
    /\ pav[r].ffmpeg_calls = 0
    /\ ~output_file[r]

C6_FrameCount ==
    \A r \in Runs :
        pav[r].pc # "idle" =>
            LET n == (pav[r].y_len * pav[r].fps) \div pav[r].sr
            IN  /\ pav[r].saved <= n
                /\ Written(r) \subseteq 0..(n - 1)
                /\ pav[r].pc = "ffmpeg" =>
                      Written(r) = 0..(n - 1) /\ pav[r].saved = n
                /\ pav[r].ffmpeg_calls > 0 => pav[r].saved = n

\* ffmpeg is about to run on the three frames of a three-sample track at
\* sr = fps
C6_Witness ==
    \E r \in Runs :
        /\ pav[r].pc = "ffmpeg" /\ pav[r].y_len = 3 /\ pav[r].sr = pav[r].fps
        /\ Written(r) = 0..2

AllFinite(v) == \A j \in DOMAIN v : IsFinite(v[j])

\* C7: for a flat slice (the averaged amplitudes have max = min) the
\* normalized vector, and so the bar heights of the frame, are finite.
C7_FlatSliceFinite ==
    \A r \in Runs :
        (pav[r].raw # None /\ pav[r].flat) =>
            AllFinite(pav[r].raw) /\ AllFinite(pav[r].heights)

\* C8: with 0 < smoothing < 1, the first frame of a run uses its raw vector
\* and every later frame uses prev * smoothing + raw * (1 - smoothing), prev
\* being the smoothed vector of the frame before it in the same run.
C8_Smoothing ==
    \A r \in Runs :
        (pav[r].raw # None /\ 0 < pav[r].smoothing /\ pav[r].smoothing < Scale) =>
            /\ pav[r].frame = 0 => pav[r].heights = pav[r].raw
            /\ pav[r].frame > 0 =>
                  pav[r].heights =
                      blend(pav[r].last_heights, pav[r].raw, pav[r].smoothing)

\* a later frame whose smoothed vector differs from its raw one
C8_Witness ==
    \E r \in Runs :
        /\ pav[r].raw # None /\ pav[r].smoothing > 0 /\ pav[r].frame >= 1
        /\ pav[r].pc = "frame"
        /\ pav[r].heights # pav[r].raw
        /\ pav[r].heights = blend(pav[r].last_heights, pav[r].raw, pav[r].smoothing)

\* C9: with smoothing = 0 every frame's vector is its raw normalized vector.
C9_NoSmoothing ==
    \A r \in Runs :
        (pav[r].raw # None /\ pav[r].smoothing = 0) => pav[r].heights = pav[r].raw

\* a later frame with smoothing 0 whose predecessor had another vector
C9_Witness ==
    \E r \in Runs :
        /\ pav[r].raw # None /\ pav[r].smoothing = 0 /\ pav[r].frame >= 1
        /\ pav[r].last_heights # pav[r].raw
        /\ pav[r].heights = pav[r].raw

\* w - (w mod 2)
Truncated(x) == x - (x % 2)

\* C10 as stated: for every decodable image of size w x h the returned width
\* and height are even and equal w - (w mod 2) and h - (h mod 2), and an
\* image with even sides comes back with its own path.
C10_Original ==
    (eed.called /\ IsImage(eed.file)) =>
        /\ eed.result[2] = Truncated(eed.file[2])
        /\ eed.result[3] = Truncated(eed.file[3])
        /\ eed.result[2] % 2 = 0 /\ eed.result[3] % 2 = 0
        /\ (eed.file[2] % 2 = 0 /\ eed.file[3] % 2 = 0) => eed.result[1] = eed.arg

\* C10 amended: the returned width and height are always even; an image with
\* even sides comes back with its own path and size; an image with an odd
\* side whose truncated sides are at least 1 and whose copy is saved comes
\* back as a copy of size w - (w mod 2), h - (h mod 2); otherwise the result
\* is the original path with 0, 0.
C10_EvenDimensions ==
    (eed.called /\ IsImage(eed.file)) =>
        LET w == eed.file[2]
            h == eed.file[3]
            even == w % 2 = 0 /\ h % 2 = 0
            resizable == Truncated(w) >= 1 /\ Truncated(h) >= 1 /\ eed.save_ok
        IN  /\ eed.result[2] % 2 = 0 /\ eed.result[3] % 2 = 0
            /\ even => eed.result = <<eed.arg, w, h>>
            /\ (~even /\ resizable) =>
                  /\ eed.result[1] # eed.arg
                  /\ eed.result[2] = Truncated(w) /\ eed.result[3] = Truncated(h)
                  /\ image_files[eed.result[1]] = Image(Truncated(w), Truncated(h))
            /\ (~even /\ ~resizable) => eed.result = <<eed.arg, 0, 0>>

\* a 3 x 3 image came back as a 2 x 2 copy under another path
C10_Witness ==
    /\ eed.called /\ eed.file = Image(3, 3)
    /\ eed.result[1] # eed.arg /\ eed.result[2] = 2 /\ eed.result[3] = 2

EedFailed ==
    \/ ~IsImage(eed.file)
    \/ /\ IsOdd(<<eed.file[2], eed.file[3]>>)
       /\ \/ ~ResizeAccepts(adjusted_size(<<eed.file[2], eed.file[3]>>))
          \/ ~eed.save_ok

\* C12: a call that cannot open, decode, resize or save returns the original
\* path with width 0 and height 0 and leaves no copy; a call that succeeds on
\* an image with both sides >= 2 never returns width 0 or height 0.
C12_FailureSignal ==
    eed.called =>
        /\ EedFailed => (eed.result = <<eed.arg, 0, 0>> /\ ~eed.wrote)
        /\ (~EedFailed /\ eed.file[2] >= 2 /\ eed.file[3] >= 2) =>
              (eed.result[2] # 0 /\ eed.result[3] # 0)

\* the copy of a 3 x 3 image could not be saved: original path, 0, 0
C12_Witness ==
    /\ eed.called /\ eed.file = Image(3, 3) /\ ~eed.save_ok
    /\ eed.result = <<eed.arg, 0, 0>>

\* ffmpeg is about to be invoked, or was invoked, in run r
AtOrAfterFFmpeg(r) == pav[r].pc = "ffmpeg" \/ pav[r].ffmpeg_calls > 0

\* the same for the call of create_video_from_frames
CvfAtOrAfterFFmpeg == cvf.pc = "ffmpeg" \/ cvf.ffmpeg_calls > 0

\* C13: when the first frame has an odd side, every frame ffmpeg is pointed
\* at has the first frame's size truncated to even, in
\* process_audio_visualization (frames resized in place) and in
\* create_video_from_frames (frames resized into a new directory).
C13_EvenFramesBeforeFFmpeg ==
    /\ \A r \in Runs :
          (AtOrAfterFFmpeg(r) /\ IsOdd(pav[r].canvas)) =>
              /\ pav[r].pc = "ffmpeg" => Written(r) = 0..(pav[r].saved - 1)
              /\ \A k \in Written(r) :
                    /\ frame_store[r].files[k] = adjusted_size(pav[r].canvas)
                    /\ ~IsOdd(frame_store[r].files[k])
    /\ (/\ CvfAtOrAfterFFmpeg
        /\ Present(cvf_files.given) # {}
        /\ IsOdd(cvf_files.given[first_frame(cvf_files.given)])) =>
            /\ cvf.frames_dir = "resized"
            /\ Present(CvfInput) = Present(cvf_files.given)
            /\ \A k \in Present(CvfInput) :
                  /\ CvfInput[k] =
                        adjusted_size(cvf_files.given[first_frame(cvf_files.given)])
                  /\ ~IsOdd(CvfInput[k])

\* two frames rendered 3 x 2 stand resized to 2 x 2 when ffmpeg is invoked
C13_Witness ==
    \E r \in Runs :
        /\ pav[r].pc = "ffmpeg" /\ pav[r].canvas = <<3, 2>> /\ pav[r].saved >= 2
        /\ \A k \in Written(r) : frame_store[r].files[k] = <<2, 2>>

\* C14: a failure of a delete operation never changes the outcome of the run:
\* a run whose encoding succeeded and whose output was verified ends by
\* returning True, and a run that failed ends by raising the error it failed
\* with, not the error of a delete operation.
C14_DeleteFailureHarmless ==
    \A r \in Runs :
        Terminal(r) =>
            /\ pav[r].verified => pav[r].pc = "returned"
            /\ ~pav[r].verified =>
                  /\ pav[r].pc = "raised"
                  /\ pav[r].exc # NoExc
                  /\ pav[r].exc # Exc("OSError", "cannot remove", "")

\* C17: when create_video_from_frames has returned or raised, the frame files
\* it was given are gone and so is the directory of resized frames it made.
C17_CvfFramesDeleted ==
    cvf.pc \in {"returned", "raised"} =>
        /\ Present(cvf_files.given) = {}
        /\ ~cvf_files.resized.exists

\* usable width of the image: image_width x (1 - 2 x horizontal_margin)
UsableWidth == effective_width(ImgWidth, bars.style.horizontal_margin)

\* C18: for every style (bar_count >= 1, bar_width_ratio in (0, 1],
\* horizontal_margin in [0, 0.5)) the bars are computed without error, each
\* is (usable_width / bar_count) x bar_width_ratio wide, bar j stands at
\* margin + j x (bar_width + spacing), the first bar starts at
\* horizontal_margin x image_width and the right edge of the last bar is not
\* beyond image_width x (1 - horizontal_margin).
C18_BarGeometry ==
    bars.drawn =>
        /\ bars.exc = NoExc
        /\ LET n == bars.style.bar_count
               rects == bars.rects
           IN  /\ \A k \in 1..n :
                      rects[k].width * n * Scale = UsableWidth * bars.style.bar_width_ratio
               /\ \E spacing \in 0..ImgWidth :
                      \A k \in 1..n :
                          rects[k].x = rects[1].x + (k - 1) * (rects[k].width + spacing)
               /\ rects[1].x * Scale = bars.style.horizontal_margin * ImgWidth
               /\ (rects[n].x + rects[n].width) * Scale
                      <= ImgWidth * (Scale - bars.style.horizontal_margin)

\* C19: the height of the rectangle of every bar j is
\* amplitude[j] x image_height x 0.8 x bar_height_scale.
C19_BarHeight ==
    (bars.drawn /\ bars.exc = NoExc) =>
        \A k \in 1..bars.style.bar_count :
            bars.rects[k].height * 5 * Scale * Scale
                = bars.amps[k] * ImgHeight * 4 * bars.style.bar_height_scale

\* C20: with N samples, n >= 1 frames and L = floor(N / n), frame i has the
\* segment [i x L, (i+1) x L), and the samples after the last segment,
\* N - n x L, are fewer than L.
C20_LeftoverBelowSegment ==
    \A r \in Runs :
        pav[r].n_frames >= 1 =>
            LET N == pav[r].y_len
                n == pav[r].n_frames
                L == pav[r].frame_length
            IN  /\ L = N \div n
                /\ \A i \in 0..(n - 1) :
                      /\ start_idx(i, L) = i * L
                      /\ end_idx(i, L, N) = (i + 1) * L
                /\ N - n * L < L

\* C15: a task whose preset, audio and image records exist and whose audio
\* decoding, rendering and ffmpeg run succeed has, once its thread has ended,
\* status completed, progress 100, estimated_time 0, its output_filename and
\* one OutputVideo row; the progress_callback passed to the pipeline does not
\* fail it.
C15_TaskCompletes ==
    \A t \in TaskIds :
        (tasks[t].exists /\ workers[t].pc = "ended" /\ workers[t].failures = {}) =>
            /\ workers[t].exc.type # "TypeError"
            /\ tasks[t].status = "completed"
            /\ tasks[t].progress = 100
            /\ tasks[t].estimated_time = 0
            /\ tasks[t].output_filename # ""
            /\ videos = Cardinality({u \in TaskIds : tasks[u].status = "completed"})

\* every value of the sequence is at least the one before it
NonDecreasing(seq) == \A k \in 1..(Len(seq) - 1) : seq[k] <= seq[k + 1]

\* C16: the values stored in the progress of a task never decrease and lie
\* within 0..100: 0 at creation, 5 on entering processing, 100 only on
\* completion; create_video_from_frames reports 85 before ffmpeg is run and
\* 100 only after ffmpeg exited 0 and the output file exists.
C16_ProgressMonotonic ==
    /\ \A t \in TaskIds :
          tasks[t].exists =>
              LET history == tasks[t].history
              IN  /\ NonDecreasing(history)
                  /\ \A k \in 1..Len(history) : history[k] \in 0..100
                  /\ history[1] = 0
                  /\ tasks[t].progress = history[Len(history)]
                  /\ tasks[t].status = "pending" => history = <<0>>
                  /\ (tasks[t].status = "processing" \/ Len(history) >= 2) =>
                        history[2] = 5
                  /\ (\E k \in 1..Len(history) : history[k] = 100) =>
                        tasks[t].status = "completed"
    /\ cvf.has_callback =>
          /\ NonDecreasing(cvf.progress)
          /\ (cvf.pc = "ffmpeg" \/ cvf.ffmpeg_calls > 0) =>
                (Len(cvf.progress) >= 1 /\ cvf.progress[1] = 85)
          /\ cvf.ffmpeg_calls = 0 =>
                \A k \in 1..Len(cvf.progress) : cvf.progress[k] = 85
          /\ (\E k \in 1..Len(cvf.progress) : cvf.progress[k] = 100) =>
                (cvf.ffmpeg_calls > 0 /\ cvf.returncode = 0 /\ cvf_files.output)
          /\ cvf.pc = "returned" => cvf.progress = <<85, 100>>

\* a task that entered processing and ended: its progress went 0, 5
C16_Witness ==
    \E t \in TaskIds :
        /\ workers[t].pc = "ended"
        /\ Len(tasks[t].history) >= 2
        /\ tasks[t].progress = 5

\* C21 as stated: ffmpeg is invoked at most once per run and only after every
\* frame index 0..n-1 has been written; each frame index is written exactly
\* once under its own file name; no frame file is written after ffmpeg was
\* started.
C21_Original ==
    \A r \in Runs :
        /\ pav[r].ffmpeg_calls <= 1
        /\ \A k \in FrameIdx : pav[r].writes[k] <= 1
        /\ AtOrAfterFFmpeg(r) =>
              \A k \in FrameIdx : pav[r].writes[k] = (IF k < pav[r].n_frames THEN 1 ELSE 0)
        /\ pav[r].late_writes = 0

\* C21 amended: ffmpeg is invoked at most once per run and only after the
\* loop has saved every frame index 0..n-1, each once under its own name;
\* when the frames have an odd side each frame file is written once more, in
\* place, by the resize that precedes ffmpeg; no frame file is written after
\* ffmpeg was started.
C21_FramesBeforeFFmpeg ==
    \A r \in Runs :
        /\ pav[r].ffmpeg_calls <= 1
        /\ pav[r].saved <= pav[r].n_frames
        /\ \A k \in FrameIdx :
              /\ pav[r].writes[k] <= (IF IsOdd(pav[r].canvas) THEN 2 ELSE 1)
              /\ pav[r].writes[k] >= 1 <=> k < pav[r].saved
              /\ pav[r].writes[k] = 2 => pav[r].pc \notin {"frame", "render", "encode"}
        /\ AtOrAfterFFmpeg(r) =>
              /\ pav[r].saved = pav[r].n_frames
              /\ \A k \in FrameIdx :
                    pav[r].writes[k] = (IF k >= pav[r].n_frames THEN 0
                                        ELSE IF IsOdd(pav[r].canvas) THEN 2 ELSE 1)
        /\ pav[r].late_writes = 0

\* ffmpeg was run after three frames, each written once
C21_Witness ==
    \E r \in Runs :
        /\ pav[r].ffmpeg_calls = 1 /\ pav[r].n_frames = 3
        /\ \A k \in 0..2 : pav[r].writes[k] = 1

\* C22: in every run, also when runs interleave, the vector of frame 0 is its
\* raw vector and the vector of every frame i > 0 of a run with smoothing > 0
\* is blended with the smoothed vector of frame i - 1 of that same run and
\* with nothing else.
C22_SmoothingIsolated ==
    \A r \in Runs :
        (pav[r].raw # None /\ pav[r].smoothing > 0) =>
            pav[r].heights =
                IF pav[r].frame = 0
                THEN pav[r].raw
                ELSE blend(pav[r].last_heights, pav[r].raw, pav[r].smoothing)

\* C23: the background a run draws a frame on is derived from that run's own
\* image: the image itself when its sides are even, else the resized copy
\* that this run saved, also when several runs resize at once.
C23_OwnBackground ==
    \A r \in Runs :
        pav[r].background # None =>
            pav[r].background =
                IF IsOdd(pav[r].image)
                THEN <<"resized", r, adjusted_size(pav[r].image)>>
                ELSE <<"image", r, pav[r].image>>

\* start_video_generation_task is inside the call that made task t
Starting(t) == main.pc # "idle" /\ main.task_id = t

\* C24: once the thread of a task has ended and the call of
\* start_video_generation_task that made the task has returned, the task's
\* id is not a key of running_tasks.
C24_RunningTasksLive ==
    \A t \in TaskIds :
        (workers[t].pc = "ended" /\ ~Starting(t)) => t \notin running_tasks

\* the ways the status of a task may have moved so far
StatusPaths ==
    {<<"pending">>, <<"pending", "processing">>,
     <<"pending", "processing", "completed">>,
     <<"pending", "processing", "failed">>, <<"pending", "failed">>}

\* C25: the status of a task moves pending -> processing -> completed,
\* pending -> processing -> failed or pending -> failed and is not written
\* again after completed or failed; a failed task has a non-empty
\* error_message; a task whose thread has ended is completed or failed.
C25_StatusLifecycle ==
    \A t \in TaskIds :
        tasks[t].exists =>
            /\ tasks[t].status_history \in StatusPaths
            /\ tasks[t].status = "failed" => tasks[t].error_message # ""
            /\ workers[t].pc = "ended" => tasks[t].status \in {"completed", "failed"}

\* C26: at least one preset remains whatever delete_preset requests are
\* handled, one after another or at once, and a request refused because the
\* preset is the last one deletes nothing.
C26_LastPresetKept ==
    /\ presets # {}
    /\ \A q \in Requests : requests[q].result = "rejected" => requests[q].deleted = {}

====
